---- MODULE Spec2Model ----
(***************************************************************************)
(* A model of server.py: the WebRTC demo server that negotiates a peer     *)
(* connection per POST /offer, wraps every inbound video track in a        *)
(* VideoTrack (transform + throttled snapshot), answers "ping" messages on *)
(* data channels, and closes every registered peer connection at shutdown. *)
(*                                                                         *)
(* The asyncio event loop runs one task at a time; a task can be           *)
(* interleaved with others only at an await that really suspends.  Each    *)
(* action below is therefore one run of a handler from one suspension      *)
(* point to the next.                                                      *)
(***************************************************************************)
EXTENDS Integers, Sequences, FiniteSets, TLC

(* ------------------------------ bounds -------------------------------- *)

\* Offer requests the environment sends (each constructs at most one pc).
MaxPcs == 2
\* VideoTrack objects constructed over the whole run.
MaxTracks == 2

\* The longest a snapshot write takes, in ticks.
MaxWriteTicks == 1

\* Data channels the peers open over the whole run.
MaxChans == 2

PcIds == 1..MaxPcs
ChanIds == 1..MaxChans
TrackIds == 1..MaxTracks

(* ------------------------------ values -------------------------------- *)

\* Python's None where a clock reading is expected (last_save_time).
NoTime == -1
\* Python's None where an address is expected (request.remote, client_ip).
NoAddr == << >>
\* A key that is absent from the JSON body of the request.
NoKey == "NoKey"

\* Values of params['video_transform'] the client may send; "cartoon" stands
\* for any selector recv does not recognise.
Selectors == {"none", "edges", "rotate", "cartoon"}

\* request.remote: NoAddr, or a dotted address given as its characters' tokens.
Addr1 == <<"10", ".", "0", ".", "0", ".", "7">>
Addr2 == <<"10", ".", "0", ".", "0", ".", "8">>

VARIABLES
    pcs,         \* the module-level set of peer connections
    registered,  \* history: every pc that was ever added to pcs
    req,         \* per request: where its offer() coroutine stands, and its closure
    pcState,     \* per pc: "none" (not constructed), "open", "closing", "closed"
    iceState,    \* per pc: pc.iceConnectionState
    iceHandler,  \* per pc: where its on_iceconnectionstatechange task stands
    shutdown,    \* where on_shutdown stands, and the close() tasks of its gather
    trk,         \* per VideoTrack: its fields, its owner and whether it is pulled
    clock,       \* the wall clock's latest reading, in ticks
    hist,        \* history, per VideoTrack: frames pulled and returned, snapshots
    files,       \* the data directory: the image stored under each file name
    chanPc,      \* per data channel: the pc whose 'datachannel' event announced it (0: none)
    lastMessage, \* the message the latest on_message call was given, and its channel
    lastSent     \* what that call sent, in order: each message with its channel

sessionVars == <<pcs, registered, req, pcState, iceState, iceHandler, shutdown>>
trackVars == <<trk, clock, hist, files>>
chanVars == <<chanPc, lastMessage, lastSent>>
vars == <<sessionVars, trackVars, chanVars>>

\* The offer() coroutine of a request that has not arrived.  sdp and type tell
\* whether the body has the key; video_transform and remote are what the
\* closures of the handlers read (params, request).
NoRequest ==
    [phase |-> "idle", sdp |-> FALSE, type |-> FALSE, video_transform |-> NoKey,
     remote |-> NoAddr]

\* A slot in which no VideoTrack has been constructed yet (pc = 0).
NoTrack ==
    [pc |-> 0, transform |-> NoKey, save_interval_s |-> 0, last_save_time |-> NoTime,
     client_ip |-> NoAddr, active |-> FALSE, ended |-> FALSE]

\* No on_message call yet (chan = 0).
NoMessage == [chan |-> 0, str |-> FALSE, body |-> << >>]

\* Nothing pulled, returned or written yet.
NoHistory == [pulled |-> << >>, forwarded |-> << >>, arrivals |-> << >>, shots |-> << >>]

Init ==
    /\ pcs = {}
    /\ registered = {}
    /\ req = [r \in PcIds |-> NoRequest]
    /\ pcState = [p \in PcIds |-> "none"]
    /\ iceState = [p \in PcIds |-> "new"]
    /\ iceHandler = [p \in PcIds |-> "idle"]
    /\ shutdown = [phase |-> "idle", pending |-> {}, closing |-> {}]
    /\ trk = [t \in TrackIds |-> NoTrack]
    /\ clock = 0
    /\ hist = [t \in TrackIds |-> NoHistory]
    /\ files = {}
    /\ chanPc = [c \in ChanIds |-> 0]
    /\ lastMessage = NoMessage
    /\ lastSent = << >>

\* pc.close() has been called on p (RTCPeerConnection's closed flag is set).
IsClosed(p) == pcState[p] \in {"closing", "closed"}

\* The VideoTrack objects added to pc p with pc.addTrack.
TracksOf(p) == {t \in TrackIds : trk[t].pc = p}

(* ---------------------------- offer (117-174) -------------------------- *)

\* A handler that reads the type with a default (params.get('type')): only a
\* missing 'sdp' raises.
WellFormedSdpOnly(params) == params.sdp

\* RTCSessionDescription(sdp=params['sdp'], type=params['type']): a missing key
\* raises KeyError on line 119.
WellFormed(params) == params.sdp /\ params.type

\* POST /offer arrives while the server still listens (on_shutdown runs once
\* the listening sockets are closed): offer() starts and suspends on line 118,
\* reading the body.
offer(r, params, remote) ==
    /\ req[r].phase = "idle"
    /\ \A q \in PcIds : q < r => req[q].phase # "idle"
    /\ shutdown.phase = "idle"
    /\ req' = [req EXCEPT ![r] = [phase |-> "json", sdp |-> params.sdp, type |-> params.type,
                                  video_transform |-> params.video_transform,
                                  remote |-> remote]]
    /\ UNCHANGED <<pcs, registered, pcState, iceState, iceHandler, shutdown, trackVars, chanVars>>

\* The body is read: offer() runs from line 118 to its next suspension, the
\* await of pc.setRemoteDescription on line 163.  A malformed body raises on
\* line 119, before RTCPeerConnection() on line 121; otherwise the pc is
\* constructed and added to pcs, and the three handlers are registered on it.
offer_json(r) ==
    /\ req[r].phase = "json"
    /\ IF WellFormed(req[r])
       THEN /\ pcState' = [pcState EXCEPT ![r] = "open"]
            /\ pcs' = pcs \cup {r}
            /\ registered' = registered \cup {r}
            /\ req' = [req EXCEPT ![r].phase = "setRemote"]
       ELSE /\ req' = [req EXCEPT ![r].phase = "rejected"]
            /\ UNCHANGED <<pcState, pcs, registered>>
    /\ UNCHANGED <<iceState, iceHandler, shutdown, trackVars, chanVars>>

\* The await after the one offer() is suspended in.
NextPhase(phase) ==
    CASE phase = "setRemote" -> "createAnswer"
      [] phase = "createAnswer" -> "setLocal"
      [] phase = "setLocal" -> "done"

\* An await of lines 163, 166, 167 returns (ok) or raises (~ok).  Nothing in
\* offer() catches the exception: it reaches the caller and the coroutine ends
\* with the pc as it is.  On success offer() runs on to its next await, whose
\* call raises at once on a pc that was closed in the meantime.
offer_resume(r, ok) ==
    /\ req[r].phase \in {"setRemote", "createAnswer", "setLocal"}
    /\ req' = [req EXCEPT ![r].phase =
                  IF ok /\ pcState[r] = "open" THEN NextPhase(req[r].phase) ELSE "failed"]
    /\ UNCHANGED <<pcs, registered, pcState, iceState, iceHandler, shutdown, trackVars, chanVars>>

(* ----------------------- on_track (148-160) ---------------------------- *)

\* The lowest slot in which no VideoTrack has been constructed.
FreeTrack == CHOOSE t \in TrackIds : trk[t].pc = 0 /\ \A u \in TrackIds : u < t => trk[u].pc # 0

\* VideoTrack.__init__ (34-40) as on_track calls it: save_interval_s keeps its
\* default, last_save_time starts as None.
VideoTrack(p, transform, ip) ==
    [pc |-> p, transform |-> transform, save_interval_s |-> 60, last_save_time |-> NoTime,
     client_ip |-> ip, active |-> TRUE, ended |-> FALSE]

\* An on_track that does not pass the selector of the offer: VideoTrack is
\* constructed with transform='none'.
on_track_unbound(p, kind) ==
    /\ req[p].phase = "setRemote"
    /\ pcState[p] = "open"
    /\ \E t \in TrackIds : trk[t].pc = 0
    /\ IF kind = "video" /\ req[p].video_transform # NoKey
       THEN /\ trk' = [trk EXCEPT ![FreeTrack] = VideoTrack(p, "none", req[p].remote)]
            /\ UNCHANGED req
       ELSE /\ req' = [req EXCEPT ![p].phase = "failed"]
            /\ UNCHANGED trk
    /\ UNCHANGED <<pcs, registered, pcState, iceState, iceHandler, shutdown>>
    /\ UNCHANGED <<clock, hist, files, chanVars>>
\* setRemoteDescription emits 'track' for a remote track of the offer while
\* offer() awaits it on line 163.  The assert on line 152 (an audio track) or the
\* lookup params['video_transform'] on line 153 (key absent) raises out of the
\* emit, and so out of setRemoteDescription: the await on line 163 raises.
\* Otherwise a VideoTrack wraps the track and is added to the pc.
on_track(p, kind) ==
    /\ req[p].phase = "setRemote"
    /\ pcState[p] = "open"
    /\ \E t \in TrackIds : trk[t].pc = 0
    /\ IF kind = "video" /\ req[p].video_transform # NoKey
       THEN /\ trk' = [trk EXCEPT ![FreeTrack] =
                          VideoTrack(p, req[p].video_transform, req[p].remote)]
            /\ UNCHANGED req
       ELSE /\ req' = [req EXCEPT ![p].phase = "failed"]
            /\ UNCHANGED trk
    /\ UNCHANGED <<pcs, registered, pcState, iceState, iceHandler, shutdown>>
    /\ UNCHANGED <<clock, hist, files, chanVars>>

\* A handler that retires the VideoTrack when its remote track ends: it takes
\* the track off the pc's sender, which pulls it no more.
on_ended_retiring(t) ==
    /\ trk[t].pc # 0
    /\ trk' = [trk EXCEPT ![t].ended = TRUE, ![t].active = FALSE]
    /\ UNCHANGED <<sessionVars, clock, hist, files, chanVars>>

\* The remote track ends: on_ended (158-160) only logs.  The VideoTrack that
\* wraps it stays on the pc; its next recv raises out of self.track.recv().
\* A notification for a track that has ended already finds it so and the
\* handler, which keeps nothing, logs again.
on_ended(t) ==
    /\ trk[t].pc # 0
    /\ trk' = [trk EXCEPT ![t].ended = TRUE]
    /\ UNCHANGED <<sessionVars, clock, hist, files, chanVars>>

(* ------------------------ VideoTrack.recv (45-104) --------------------- *)

\* Clock readings are whole ticks; a second has this many.
TicksPerSecond == 2
Secs(s) == s * TicksPerSecond

\* Pixel data: a picture as the camera sent it, or what a filter made of it.
Raw(img) == [img |-> img, op |-> "raw", num |-> 0, den |-> 1]

\* A decoded frame as self.track.recv() returns it; its pts counts the frames
\* of the track, its time_base is 1/tb seconds.
Frame(img, pts, tb) == [data |-> Raw(img), format |-> "yuv420p", pts |-> pts, time_base |-> tb]

\* cv2.cvtColor(cv2.Canny(img, 100, 200), COLOR_GRAY2BGR), line 51: the edge
\* map of a uniformly black picture is black, any other picture changes.
Canny(data) == IF data.img = "black" THEN data ELSE [data EXCEPT !.op = "edges"]

\* cv2.warpAffine about the centre by frame.time * 45 degrees, lines 64-70, with
\* frame.time = pts * time_base = pts / tb: a turn by num / den degrees.  No
\* turn, or a black picture (the border is filled black), leaves the pixels.
Rotated(data, pts, tb) ==
    IF data.img = "black" \/ (45 * pts) % (360 * tb) = 0 THEN data
    ELSE [data EXCEPT !.op = "rotate", !.num = (45 * pts) % (360 * tb), !.den = tb]

\* A rebuilt frame whose time base is not copied: line 56 (or 75) is missing,
\* and the frame keeps the None that VideoFrame.from_ndarray gives it.
RebuiltWithoutTimeBase(data, frame) ==
    [data |-> data, format |-> "bgr24", pts |-> frame.pts, time_base |-> NoTime]
\* VideoFrame.from_ndarray(img, format='bgr24') with pts and time_base copied
\* from the frame, lines 54-56 and 73-75.
Rebuilt(data, frame) ==
    [data |-> data, format |-> "bgr24", pts |-> frame.pts, time_base |-> frame.time_base]

\* A selector chain whose last branch is the edge filter: only 'none' passes
\* the frame through.
TransformEdgesByDefault(transform, frame) ==
    IF transform = "none" THEN frame
    ELSE IF transform = "rotate" THEN Rebuilt(Rotated(frame.data, frame.pts, frame.time_base), frame)
    ELSE Rebuilt(Canny(frame.data), frame)

\* Lines 48-81: the frame recv returns.
Transform(transform, frame) ==
    IF transform = "edges" THEN Rebuilt(Canny(frame.data), frame)
    ELSE IF transform = "rotate" THEN Rebuilt(Rotated(frame.data, frame.pts, frame.time_base), frame)
    ELSE frame

\* A throttle that measures from the start of the process (clock reading 0)
\* instead of from the track's last save.
DueSinceStart(self, now) ==
    \/ self.last_save_time = NoTime
    \/ now >= self.save_interval_s * TicksPerSecond

\* A throttle that waits for more than the interval: > for >= on line 84.
DueStrict(self, now) ==
    \/ self.last_save_time = NoTime
    \/ now - self.last_save_time > self.save_interval_s * TicksPerSecond

\* Lines 83-84: whether this frame is saved, with now the reading of time.time().
Due(self, now) ==
    \/ self.last_save_time = NoTime
    \/ now - self.last_save_time >= self.save_interval_s * TicksPerSecond

\* client_ip.replace('.', '-'), line 89.
Replace(ip) == [i \in 1..Len(ip) |-> IF ip[i] = "." THEN "-" ELSE ip[i]]

\* A file name without the address part: lines 86-89 are missing.
FileNameWithoutAddress(ip, now) ==
    [prefix |-> << >>, stamp |-> now \div TicksPerSecond, ext |-> ".jpg"]
\* Lines 86-91: the address part, then the clock reading formatted with
\* '%y%m%d_%H%M%S' (whole seconds), then '.jpg'.
FileName(ip, now) ==
    [prefix |-> IF ip = NoAddr THEN << >> ELSE Replace(ip) \o <<"_">>,
     stamp |-> now \div TicksPerSecond,
     ext |-> ".jpg"]

\* A snapshot of what recv returns: img from line 50 or 70 (the filtered
\* array) is written instead of a fresh frame.to_ndarray.
SavedImageOfReturned(frame, ret) == ret.data
\* Line 97: the picture that is written comes from the frame that was pulled.
SavedImage(frame, ret) == frame.data

\* A throttle that stores the reading it compared on line 84 instead of
\* reading the clock again after the write.
SaveTimeOfDecision(now, d) == now
\* Line 102: a second reading of time.time(), taken after the write, which
\* took d ticks.
SaveTime(now, d) == now + d

\* A recv that leaves through the snapshot branch without returning the frame.
ReturnUnlessSaved(forwarded, ret, saved) ==
    IF saved THEN forwarded ELSE Append(forwarded, ret)

\* Line 104: recv returns ret, whether or not the frame was saved.
Return(forwarded, ret, saved) == Append(forwarded, ret)

\* cv2.imwrite(fname, img), line 101: the file holds img if the write worked
\* (replacing what it held); a write that fails returns False and leaves it.
Written(dir, fname, img, ok) ==
    IF ok THEN {f \in dir : f.fname # fname} \cup {[fname |-> fname, img |-> img]}
    ELSE dir

\* A recv in which a failed write raises (as if the result of cv2.imwrite were
\* checked and turned into an exception): the frame is not returned and the
\* sender, whose task ends with the exception, pulls the track no more.
recv_raising(t, img, tb, now, d, ok) ==
    LET self == trk[t]
        frame == Frame(img, Len(hist[t].pulled), tb)
        ret == Transform(self.transform, frame)
        fname == FileName(self.client_ip, now)
        shot == [fname |-> fname, img |-> SavedImage(frame, ret), at |-> now, took |-> d,
                 stored |-> SaveTime(now, d), ok |-> ok]
    IN  /\ self.pc # 0
        /\ self.active
        /\ ~self.ended
        /\ iceState[self.pc] \in {"completed", "failed"}
        /\ now >= clock
        /\ IF Due(self, now)
           THEN /\ files' = Written(files, fname, shot.img, ok)
                /\ trk' = IF ok THEN [trk EXCEPT ![t].last_save_time = SaveTime(now, d)]
                          ELSE [trk EXCEPT ![t].active = FALSE]
                /\ clock' = now + d
                /\ hist' = [hist EXCEPT ![t] =
                               [pulled |-> Append(@.pulled, frame),
                                forwarded |-> IF ok THEN Return(@.forwarded, ret, TRUE)
                                              ELSE @.forwarded,
                                arrivals |-> Append(@.arrivals, now),
                                shots |-> Append(@.shots, shot)]]
           ELSE /\ clock' = now
                /\ hist' = [hist EXCEPT ![t] =
                               [@ EXCEPT !.pulled = Append(@, frame),
                                         !.forwarded = Return(@, ret, FALSE),
                                         !.arrivals = Append(@, now)]]
                /\ UNCHANGED <<trk, files>>
        /\ UNCHANGED <<sessionVars, chanVars>>
\* A throttle whose last_save_time is shared: the assignment goes to the class
\* (VideoTrack.last_save_time = ...), so every VideoTrack constructed so far
\* reads the new value.
SetLastSaveTimeOnClass(tracks, t, time) ==
    [u \in TrackIds |->
        IF tracks[u].pc # 0 THEN [tracks[u] EXCEPT !.last_save_time = time] ELSE tracks[u]]

\* Line 102: the assignment to self.last_save_time, a field of this
\* VideoTrack alone.
SetLastSaveTime(tracks, t, time) == [tracks EXCEPT ![t].last_save_time = time]

\* One call of recv on VideoTrack t by the pc's sender: a frame with picture
\* img and time base 1/tb is pulled at clock reading now.  recv has no await
\* after line 46, so the rest of it is one step.
recv(t, img, tb, now, d, ok) ==
    LET self == trk[t]
        frame == Frame(img, Len(hist[t].pulled), tb)
        ret == Transform(self.transform, frame)
        fname == FileName(self.client_ip, now)
        shot == [fname |-> fname, img |-> SavedImage(frame, ret), at |-> now, took |-> d,
                 stored |-> SaveTime(now, d), ok |-> ok]
    IN  /\ self.pc # 0
        /\ self.active
        /\ ~self.ended
        /\ iceState[self.pc] \in {"completed", "failed"}
        /\ now >= clock
        /\ IF Due(self, now)
           THEN /\ files' = Written(files, fname, shot.img, ok)
                /\ trk' = SetLastSaveTime(trk, t, SaveTime(now, d))
                /\ clock' = now + d
                /\ hist' = [hist EXCEPT ![t] =
                               [pulled |-> Append(@.pulled, frame),
                                forwarded |-> Return(@.forwarded, ret, TRUE),
                                arrivals |-> Append(@.arrivals, now),
                                shots |-> Append(@.shots, shot)]]
           ELSE /\ clock' = now
                /\ hist' = [hist EXCEPT ![t] =
                               [@ EXCEPT !.pulled = Append(@, frame),
                                         !.forwarded = Return(@, ret, FALSE),
                                         !.arrivals = Append(@, now)]]
                /\ UNCHANGED <<trk, files>>
        /\ UNCHANGED <<sessionVars, chanVars>>

(* ------------------ on_datachannel, on_message (133-138) ---------------- *)

\* The lowest data channel no pc has announced yet.
FreeChan == CHOOSE c \in ChanIds : chanPc[c] = 0 /\ \A b \in ChanIds : b < c => chanPc[b] # 0

\* The peer opens a data channel on an established connection: on_datachannel
\* registers on_message on that channel.
on_datachannel(p) ==
    /\ pcState[p] = "open"
    /\ iceState[p] = "completed"
    /\ \E c \in ChanIds : chanPc[c] = 0
    /\ chanPc' = [chanPc EXCEPT ![FreeChan] = p]
    /\ UNCHANGED <<sessionVars, trackVars, lastMessage, lastSent>>

\* message.startswith('ping'), line 137.
StartsWith(body, prefix) ==
    /\ Len(body) >= Len(prefix)
    /\ SubSeq(body, 1, Len(prefix)) = prefix

\* A slice that starts one character early: message[3:].
PongOffByOne(body) == <<"p", "o", "n", "g">> \o SubSeq(body, 4, Len(body))

\* 'pong' + message[4:], line 138.
Pong(body) == <<"p", "o", "n", "g">> \o SubSeq(body, 5, Len(body))

\* Line 137: a text message that begins with 'ping' is answered.
Answered(message) == message.str /\ StartsWith(message.body, <<"p", "i", "n", "g">>)

\* What on_message hands to channel.send, in order, for a message on channel c.
Replies(c, message) ==
    IF Answered(message) THEN <<[chan |-> c, str |-> TRUE, body |-> Pong(message.body)]>>
    ELSE << >>

\* A message arrives on channel c: text (str) or bytes, with the given body.
on_message(c, str, body) ==
    /\ chanPc[c] # 0
    /\ pcState[chanPc[c]] = "open"
    /\ lastMessage' = [chan |-> c, str |-> str, body |-> body]
    /\ lastSent' = Replies(c, lastMessage')
    /\ UNCHANGED <<sessionVars, trackVars, chanPc>>

(* ------------------- RTCPeerConnection.close (library) ------------------ *)

\* What the end of pc.close() leaves: the senders are stopped, so the pc's
\* VideoTracks are pulled no more and their remote tracks have ended.
Stopped(tracks, p) ==
    [t \in TrackIds |->
        IF tracks[t].pc = p THEN [tracks[t] EXCEPT !.active = FALSE, !.ended = TRUE]
        ELSE tracks[t]]

(* --------------- on_iceconnectionstatechange (141-146) ------------------ *)

\* The ICE states the transport moves through once both descriptions are set.
IceMoves == {<<"new", "checking">>, <<"checking", "completed">>,
             <<"checking", "failed">>, <<"completed", "failed">>}

\* The library changes pc.iceConnectionState and emits the event: the async
\* handler is scheduled as a task and reads the state when it runs.
ice_state_change(p, s) ==
    /\ pcState[p] = "open"
    /\ req[p].phase \in {"setLocal", "done"}
    /\ <<iceState[p], s>> \in IceMoves
    /\ iceHandler[p] # "closing"
    /\ iceState' = [iceState EXCEPT ![p] = s]
    /\ iceHandler' = [iceHandler EXCEPT ![p] = "scheduled"]
    /\ UNCHANGED <<pcs, registered, req, pcState, shutdown, trackVars, chanVars>>

\* A handler whose pcs.discard(pc) is not under the if of line 144: it runs
\* whatever the ICE state is.
on_change_discard_always(p) ==
    /\ iceHandler[p] = "scheduled"
    /\ IF iceState[p] = "failed" /\ pcState[p] = "open"
       THEN /\ pcState' = [pcState EXCEPT ![p] = "closing"]
            /\ iceHandler' = [iceHandler EXCEPT ![p] = "closing"]
            /\ UNCHANGED pcs
       ELSE /\ pcs' = pcs \ {p}
            /\ iceHandler' = [iceHandler EXCEPT ![p] = "idle"]
            /\ UNCHANGED pcState
    /\ UNCHANGED <<registered, req, iceState, shutdown, trackVars, chanVars>>
\* The handler runs: lines 143-145 up to the await of pc.close(), which
\* suspends only if this call is the one that closes the pc; on a pc that is
\* already closed (or closing) close() returns at once and line 146 follows.
on_iceconnectionstatechange(p) ==
    /\ iceHandler[p] = "scheduled"
    /\ IF iceState[p] = "failed"
       THEN IF pcState[p] = "open"
            THEN /\ pcState' = [pcState EXCEPT ![p] = "closing"]
                 /\ iceHandler' = [iceHandler EXCEPT ![p] = "closing"]
                 /\ UNCHANGED pcs
            ELSE /\ pcs' = pcs \ {p}
                 /\ iceHandler' = [iceHandler EXCEPT ![p] = "idle"]
                 /\ UNCHANGED pcState
       ELSE /\ iceHandler' = [iceHandler EXCEPT ![p] = "idle"]
            /\ UNCHANGED <<pcs, pcState>>
    /\ UNCHANGED <<registered, req, iceState, shutdown, trackVars, chanVars>>

\* A handler that ends with the await of pc.close(): line 146 is missing.
resume_without_discard(p) ==
    /\ iceHandler[p] = "closing"
    /\ pcState' = [pcState EXCEPT ![p] = "closed"]
    /\ iceState' = [iceState EXCEPT ![p] = "closed"]
    /\ trk' = Stopped(trk, p)
    /\ iceHandler' = [iceHandler EXCEPT ![p] = "scheduled"]
    /\ UNCHANGED <<pcs, registered, req, shutdown, clock, hist, files, chanVars>>

\* A handler that empties the registry once its pc is closed: pcs.clear() for
\* pcs.discard(pc) on line 146.
resume_clearing_registry(p) ==
    /\ iceHandler[p] = "closing"
    /\ pcState' = [pcState EXCEPT ![p] = "closed"]
    /\ iceState' = [iceState EXCEPT ![p] = "closed"]
    /\ trk' = Stopped(trk, p)
    /\ pcs' = {}
    /\ iceHandler' = [iceHandler EXCEPT ![p] = "scheduled"]
    /\ UNCHANGED <<registered, req, shutdown, clock, hist, files, chanVars>>
\* pc.close() finishes inside the handler: the state becomes 'closed' (which
\* emits the event again) and the handler goes on to pcs.discard(pc), line 146.
on_iceconnectionstatechange_resume(p) ==
    /\ iceHandler[p] = "closing"
    /\ pcState' = [pcState EXCEPT ![p] = "closed"]
    /\ iceState' = [iceState EXCEPT ![p] = "closed"]
    /\ trk' = Stopped(trk, p)
    /\ pcs' = pcs \ {p}
    /\ iceHandler' = [iceHandler EXCEPT ![p] = "scheduled"]
    /\ UNCHANGED <<registered, req, shutdown, clock, hist, files, chanVars>>

(* ------------------------ on_shutdown (177-181) ------------------------- *)

\* Lines 179-180: one close() coroutine per member of pcs at this moment,
\* handed to gather.  gather of no coroutines is already done, so line 181
\* follows without a suspension.
on_shutdown ==
    /\ shutdown.phase = "idle"
    /\ IF pcs = {}
       THEN shutdown' = [shutdown EXCEPT !.phase = "done"]
       ELSE shutdown' = [shutdown EXCEPT !.phase = "gather", !.pending = pcs]
    /\ UNCHANGED <<pcs, registered, req, pcState, iceState, iceHandler, trackVars, chanVars>>

\* gather's task for pc p starts: close() returns at once on a closed pc,
\* otherwise it marks the pc closed and suspends in the teardown.
close_task(p) ==
    /\ shutdown.phase = "gather"
    /\ p \in shutdown.pending \ shutdown.closing
    /\ IF pcState[p] = "open"
       THEN /\ pcState' = [pcState EXCEPT ![p] = "closing"]
            /\ shutdown' = [shutdown EXCEPT !.closing = @ \cup {p}]
       ELSE /\ shutdown' = [shutdown EXCEPT !.pending = @ \ {p}]
            /\ UNCHANGED pcState
    /\ UNCHANGED <<pcs, registered, req, iceState, iceHandler, trackVars, chanVars>>

\* gather's task for pc p finishes the teardown it started.
close_task_resume(p) ==
    /\ p \in shutdown.closing
    /\ pcState' = [pcState EXCEPT ![p] = "closed"]
    /\ iceState' = [iceState EXCEPT ![p] = "closed"]
    /\ iceHandler' = [iceHandler EXCEPT ![p] = "scheduled"]
    /\ trk' = Stopped(trk, p)
    /\ shutdown' = [shutdown EXCEPT !.pending = @ \ {p}, !.closing = @ \ {p}]
    /\ UNCHANGED <<pcs, registered, req, clock, hist, files, chanVars>>

\* Every task of the gather is done: on_shutdown resumes at line 181.
on_shutdown_resume ==
    /\ shutdown.phase = "gather"
    /\ shutdown.pending = {}
    /\ pcs' = {}
    /\ shutdown' = [shutdown EXCEPT !.phase = "done"]
    /\ UNCHANGED <<registered, req, pcState, iceState, iceHandler, trackVars, chanVars>>

(* --------------------------- specifications ---------------------------- *)

\* The JSON bodies of POST /offer (which keys each has, and the selector) and
\* the peers that the specification of the server's sessions draws from.
SpecPayloads == [sdp : BOOLEAN, type : BOOLEAN, video_transform : {"edges"}]
SpecAddrs == {Addr1}

Next ==
    \/ \E r \in PcIds, params \in SpecPayloads, remote \in SpecAddrs : offer(r, params, remote)
    \/ \E r \in PcIds : offer_json(r)
    \/ \E r \in PcIds, ok \in BOOLEAN : offer_resume(r, ok)
    \/ \E p \in PcIds, kind \in {"video", "audio"} : on_track(p, kind)
    \/ \E t \in TrackIds : on_ended(t)
    \/ \E p \in PcIds, s \in {"checking", "completed", "failed"} : ice_state_change(p, s)
    \/ \E p \in PcIds : on_iceconnectionstatechange(p)
    \/ \E p \in PcIds : on_iceconnectionstatechange_resume(p)
    \/ on_shutdown
    \/ \E p \in PcIds : close_task(p)
    \/ \E p \in PcIds : close_task_resume(p)
    \/ on_shutdown_resume

Spec == Init /\ [][Next]_vars

\* The event loop runs every task that is ready, and the teardown inside
\* pc.close() ends: a scheduled handler runs, a close() that was started
\* finishes, and a gather whose tasks are done resumes on_shutdown.
Fairness ==
    /\ \A p \in PcIds :
          /\ WF_vars(on_iceconnectionstatechange(p))
          /\ WF_vars(on_iceconnectionstatechange_resume(p))
          /\ WF_vars(close_task(p))
          /\ WF_vars(close_task_resume(p))
    /\ WF_vars(on_shutdown_resume)

FairSpec == Spec /\ Fairness

\* A well-formed offer with the given selector.
Offer(selector) == [sdp |-> TRUE, type |-> TRUE, video_transform |-> selector]

\* Frames the one VideoTrack of the throttle specification pulls.
MaxThrottleFrames == 5

\* The clock readings at which its frames arrive: the seconds 0, 10, 61, 65 and
\* 130, the second 60 and the tick before it.
ArrivalTimes ==
    {Secs(0), Secs(10), Secs(60) - 1, Secs(60), Secs(61), Secs(65), Secs(130)}

\* The snapshot throttle: one peer whose negotiation succeeds, one video track,
\* and frames that arrive at chosen clock readings, with writes that take up to
\* MaxWriteTicks and may fail.
ThrottleNext ==
    \/ offer(1, Offer("none"), Addr1)
    \/ offer_json(1)
    \/ offer_resume(1, TRUE)
    \/ trk[1].pc = 0 /\ on_track(1, "video")
    \/ \E s \in {"checking", "completed"} : ice_state_change(1, s)
    \/ on_iceconnectionstatechange(1)
    \/ \E now \in ArrivalTimes, d \in 0..MaxWriteTicks, ok \in BOOLEAN :
          /\ Len(hist[1].pulled) < MaxThrottleFrames
          /\ recv(1, "board", 1, now, d, ok)

ThrottleSpec == Init /\ [][ThrottleNext]_vars

\* Frames the one VideoTrack of the frame specification pulls.
MaxFrames == 3

\* The frame path: one peer whose negotiation succeeds, with any selector and
\* address, one video track, and frames with either picture and time base.
FrameNext ==
    \/ \E selector \in Selectors, remote \in {NoAddr, Addr1} : offer(1, Offer(selector), remote)
    \/ offer_json(1)
    \/ offer_resume(1, TRUE)
    \/ trk[1].pc = 0 /\ on_track(1, "video")
    \/ \E s \in {"checking", "completed"} : ice_state_change(1, s)
    \/ on_iceconnectionstatechange(1)
    \/ \E img \in {"black", "board"}, tb \in {1, 2}, now \in {Secs(0), Secs(60)}, ok \in BOOLEAN :
          /\ Len(hist[1].pulled) < MaxFrames
          /\ recv(1, img, tb, now, 0, ok)

FrameSpec == Init /\ [][FrameNext]_vars

\* Frames each VideoTrack of the tracks specification pulls.
MaxTrackFrames == 2

\* The clock readings at which they arrive: two within second 0, and second 61.
TrackTimes == {Secs(0), Secs(0) + 1, Secs(61)}

\* No negotiation is under way: every request that has arrived was answered,
\* its pc's ICE state is 'completed' and its handler has run.
Settled ==
    \A p \in PcIds :
        req[p].phase # "idle" =>
            req[p].phase = "done" /\ iceState[p] = "completed" /\ iceHandler[p] = "idle"

\* Several VideoTracks: a first peer of unknown address or at the first
\* address and a second peer at either address, whose negotiations succeed,
\* with video tracks on one pc or on both; between negotiations each track
\* pulls frames of either picture, with writes that work or fail.
TracksNext ==
    \/ \E remote \in {NoAddr, Addr1} : offer(1, Offer("none"), remote)
    \/ \E remote \in {Addr1, Addr2} : offer(2, Offer("none"), remote)
    \/ \E r \in PcIds : offer_json(r)
    \/ \E r \in PcIds : offer_resume(r, TRUE)
    \/ \E p \in PcIds : on_track(p, "video")
    \/ \E p \in PcIds, s \in {"checking", "completed"} : ice_state_change(p, s)
    \/ \E p \in PcIds : on_iceconnectionstatechange(p)
    \/ \E t \in TrackIds, img \in {"black", "board"}, now \in TrackTimes, ok \in BOOLEAN :
          /\ Settled
          /\ Len(hist[t].pulled) < MaxTrackFrames
          /\ recv(t, img, 1, now, 0, ok)

TracksSpec == Init /\ [][TracksNext]_vars

\* The longest tail of a message body of the channel specification.
MaxTail == 3

\* How its message bodies begin and go on: "ping-42" and "hello" are among them.
Heads ==
    {<< >>, <<"p", "i", "n">>, <<"p", "i", "n", "g">>, <<"x", "p", "i", "n", "g">>,
     <<"h", "e", "l", "l", "o">>}
Tails == UNION {[1..n -> {"-", "4", "2"}] : n \in 0..MaxTail}
Bodies == {h \o t : h \in Heads, t \in Tails}

\* The data channel: one peer whose negotiation succeeds, the channels it
\* opens, and a text or binary message on one of them.  on_message keeps
\* nothing from one call to the next (lines 135-138), so a behaviour delivers
\* one message, whatever its channel, kind and body.
ChannelNext ==
    \/ offer(1, Offer("none"), Addr1)
    \/ offer_json(1)
    \/ offer_resume(1, TRUE)
    \/ \E s \in {"checking", "completed"} : ice_state_change(1, s)
    \/ on_iceconnectionstatechange(1)
    \/ on_datachannel(1)
    \/ /\ lastMessage = NoMessage
       /\ \E c \in ChanIds, str \in BOOLEAN, body \in Bodies : on_message(c, str, body)

ChannelSpec == Init /\ [][ChannelNext]_vars

(* ------------------------------- claims -------------------------------- *)

\* The snapshots of VideoTrack t, in the order they were written.
Shots(t) == hist[t].shots

\* C1: on every VideoTrack, a snapshot write begins no sooner than
\* save_interval_s after the clock reading taken when the track's previous
\* write had ended; and the track's first frame is saved whatever the clock
\* reads, so the interval is measured from the track's own last write, never
\* from the start of the process.
C1_SnapshotsSpaced ==
    \A t \in TrackIds :
        /\ \A i \in 2..Len(Shots(t)) :
              Shots(t)[i].at - Shots(t)[i - 1].stored >= trk[t].save_interval_s * TicksPerSecond
        /\ hist[t].arrivals # << >> =>
              /\ Shots(t) # << >>
              /\ Shots(t)[1].at = hist[t].arrivals[1]

\* A track whose first frame came after the clock's start and that has written
\* two snapshots, with two frames in between that were not saved.
C1_Witness ==
    \E t \in TrackIds :
        /\ Len(Shots(t)) = 2
        /\ Len(hist[t].arrivals) = 4
        /\ hist[t].arrivals[1] > 0
        /\ Shots(t)[2].at = hist[t].arrivals[4]

\* The arrival times at which VideoTrack t wrote a snapshot.
CapturedTimes(t) == {Shots(t)[k].at : k \in 1..Len(Shots(t))}

\* Each frame arrives later than the one before.
Increasing(arr) == \A i \in 2..Len(arr) : arr[i - 1] < arr[i]

\* The greedy reference on arrival times, from frame i on: a frame is captured
\* iff none was captured before it or it arrives at least interval after the
\* arrival of the most recently captured frame.
RECURSIVE Greedy(_, _, _, _)
Greedy(arr, i, last, interval) ==
    IF i > Len(arr) THEN {}
    ELSE IF last = NoTime \/ arr[i] - last >= interval
         THEN {arr[i]} \cup Greedy(arr, i + 1, arr[i], interval)
         ELSE Greedy(arr, i + 1, last, interval)

\* How long the write that began at arrival time a took on track t (0 if the
\* track wrote nothing then).
WriteTook(t, a) ==
    IF a \in CapturedTimes(t)
    THEN Shots(t)[CHOOSE k \in 1..Len(Shots(t)) : Shots(t)[k].at = a].took
    ELSE 0

\* The greedy reference that measures from the end of the most recent write:
\* a frame is captured iff none was captured before it or it arrives at least
\* interval after the clock reading taken when that write had ended.
RECURSIVE GreedyAfterWrite(_, _, _, _, _)
GreedyAfterWrite(t, arr, i, last, interval) ==
    IF i > Len(arr) THEN {}
    ELSE IF last = NoTime \/ arr[i] - last >= interval
         THEN {arr[i]} \cup GreedyAfterWrite(t, arr, i + 1, arr[i] + WriteTook(t, arr[i]), interval)
         ELSE GreedyAfterWrite(t, arr, i + 1, last, interval)

\* Scenario C: frames at the seconds 0, 10, 61, 65 and 130.
ScenarioC == <<Secs(0), Secs(10), Secs(61), Secs(65), Secs(130)>>

\* C2 as stated: for increasing arrival times the frames that trigger a
\* snapshot are those of the greedy reference that measures from the arrival
\* time of the most recently captured frame.
C2_GreedyOnArrivals ==
    \A t \in TrackIds :
        Increasing(hist[t].arrivals) =>
            CapturedTimes(t) =
                Greedy(hist[t].arrivals, 1, NoTime, trk[t].save_interval_s * TicksPerSecond)

\* C2, amended: for increasing arrival times the frames that trigger a snapshot
\* are those of the greedy reference that measures from the clock reading taken
\* after the most recent write; when no write took any time these are the
\* frames of the reference on arrival times; and frames at the seconds 0, 10,
\* 61, 65, 130 are captured at 0, 61 and 130 when no write takes over a second.
C2_GreedyOnSaveTimes ==
    \A t \in TrackIds :
        LET arr == hist[t].arrivals
            interval == trk[t].save_interval_s * TicksPerSecond
        IN  Increasing(arr) =>
              /\ CapturedTimes(t) = GreedyAfterWrite(t, arr, 1, NoTime, interval)
              /\ (\A k \in 1..Len(Shots(t)) : Shots(t)[k].took = 0) =>
                    CapturedTimes(t) = Greedy(arr, 1, NoTime, interval)
              /\ (arr = ScenarioC /\ \A k \in 1..Len(Shots(t)) : Shots(t)[k].took <= Secs(1)) =>
                    CapturedTimes(t) = {Secs(0), Secs(61), Secs(130)}

\* Scenario C has run on a track, one of its writes took time, and the
\* snapshots are those of the seconds 0, 61 and 130.
C2_Witness ==
    \E t \in TrackIds :
        /\ hist[t].arrivals = ScenarioC
        /\ CapturedTimes(t) = {Secs(0), Secs(61), Secs(130)}
        /\ \E k \in 1..Len(Shots(t)) : Shots(t)[k].took > 0

(* The claims below are about peer connections and the registry. *)

\* No call of pc.close() is in progress: no handler is suspended in one and
\* on_shutdown is not waiting for its gather.
Quiescent ==
    /\ shutdown.phase # "gather"
    /\ \A p \in PcIds : iceHandler[p] # "closing"

\* C3 as stated, read at the points where no close() is in progress: pcs holds
\* exactly the peer connections that were constructed and not closed.
C3_RegistryIsOpenPcs ==
    Quiescent => pcs = {p \in PcIds : pcState[p] = "open"}

\* C4 as stated: once an offer request has failed in setRemoteDescription,
\* createAnswer or setLocalDescription, its peer connection is closed and is
\* not in pcs.
C4_FailedOfferClosesSession ==
    \A r \in PcIds : req[r].phase = "failed" => IsClosed(r) /\ r \notin pcs

\* The peer connection p is closed for good: torn down, out of pcs, and none
\* of its VideoTracks is pulled.
Retired(p) ==
    /\ pcState[p] = "closed"
    /\ p \notin pcs
    /\ \A t \in TracksOf(p) : ~trk[t].active

\* C5: whenever the ICE state of a pc whose offer was answered is 'failed', the
\* pc is eventually closed, out of pcs and with no VideoTrack still pulled, and
\* from then on it stays so: it never enters pcs again.
C5_IceFailedRetires ==
    /\ \A p \in PcIds : (iceState[p] = "failed" /\ req[p].phase = "done") ~> Retired(p)
    /\ [][\A p \in PcIds : Retired(p) => Retired(p)']_vars

\* A pc was retired by its own ICE handler (on_shutdown never ran) while the
\* other pc is still registered.
C5_Witness ==
    \E p \in PcIds :
        /\ Retired(p)
        /\ req[p].phase = "done"
        /\ shutdown.phase = "idle"
        /\ TracksOf(p) # {}
        /\ pcs # {}

\* on_shutdown returns in this step.
ShutdownReturns == shutdown.phase # "done" /\ shutdown'.phase = "done"

\* C6 as stated: when on_shutdown returns, pcs is empty and every pc that was
\* ever added to pcs has been closed.
C6_ShutdownClosesAll ==
    [][ShutdownReturns => (pcs' = {} /\ \A p \in registered' : IsClosed(p)')]_vars

\* C7: an offer whose body lacks 'sdp' or 'type' fails without constructing a
\* peer connection: the step that reads the body leaves pcs, the set of
\* constructed pcs and the registration history as they were.
C7_MalformedOfferCreatesNothing ==
    [][\A r \in PcIds :
          (req[r].phase = "json" /\ req'[r].phase # "json" /\ ~(req[r].sdp /\ req[r].type)) =>
              /\ req'[r].phase = "rejected"
              /\ pcs' = pcs
              /\ pcState' = pcState
              /\ registered' = registered]_vars

\* An offer without 'type' was rejected while another peer connection is
\* registered; no pc was constructed for it.
C7_Witness ==
    \E r \in PcIds :
        /\ req[r].phase = "rejected"
        /\ req[r].sdp /\ ~req[r].type
        /\ pcState[r] = "none"
        /\ pcs # {}

(* The claims below are about the data channel and the frames recv returns. *)

\* The body begins with the four characters of 'ping'.
BeginsPing(body) ==
    /\ Len(body) >= 4
    /\ body[1] = "p" /\ body[2] = "i" /\ body[3] = "n" /\ body[4] = "g"

\* The body without its first four characters.
Drop4(body) == [i \in 1..(Len(body) - 4) |-> body[i + 4]]

\* C8: a text message that begins with 'ping' gets exactly one response, on
\* the channel it came on: 'pong' followed by the rest of the message; any
\* other message, text or binary, gets none.
C8_PingPong ==
    lastMessage.chan # 0 =>
        IF lastMessage.str /\ BeginsPing(lastMessage.body)
        THEN lastSent = <<[chan |-> lastMessage.chan, str |-> TRUE,
                           body |-> <<"p", "o", "n", "g">> \o Drop4(lastMessage.body)]>>
        ELSE lastSent = << >>

\* Scenario D on the second channel: 'ping-42' was answered with 'pong-42'.
C8_Witness ==
    /\ lastMessage = [chan |-> 2, str |-> TRUE, body |-> <<"p", "i", "n", "g", "-", "4", "2">>]
    /\ Len(lastSent) = 1
    /\ lastSent[1].body = <<"p", "o", "n", "g", "-", "4", "2">>

\* C9: on every VideoTrack the frames recv has returned correspond one to one,
\* in order, to the frames it has pulled (as many, and the i-th returned frame
\* carries the i-th pulled frame's pts), whether or not a frame was saved; with
\* the selector 'none' the returned frames are the pulled frames themselves.
C9_FramesInOrder ==
    \A t \in TrackIds :
        /\ Len(hist[t].forwarded) = Len(hist[t].pulled)
        /\ \A i \in 1..Len(hist[t].pulled) : hist[t].forwarded[i].pts = hist[t].pulled[i].pts
        /\ trk[t].transform = "none" => hist[t].forwarded = hist[t].pulled

\* A track with the selector 'none' has returned three frames: the first and
\* the third were saved, the second was not, and one write failed.
C9_Witness ==
    \E t \in TrackIds :
        /\ trk[t].transform = "none"
        /\ Len(hist[t].forwarded) = 3
        /\ Len(Shots(t)) = 2
        /\ Shots(t)[2].at = hist[t].arrivals[3]
        /\ ~Shots(t)[1].ok

\* C10: with the selector 'none', and with any selector other than 'edges' and
\* 'rotate', every frame recv returned is the frame it pulled, with the same
\* pixel data, pts and time base, and every pulled frame was returned.
C10_PassThrough ==
    \A t \in TrackIds :
        (trk[t].pc # 0 /\ trk[t].transform \notin {"edges", "rotate"}) =>
            /\ Len(hist[t].forwarded) = Len(hist[t].pulled)
            /\ \A i \in 1..Len(hist[t].forwarded) :
                  /\ hist[t].forwarded[i].data = hist[t].pulled[i].data
                  /\ hist[t].forwarded[i].pts = hist[t].pulled[i].pts
                  /\ hist[t].forwarded[i].time_base = hist[t].pulled[i].time_base
                  /\ hist[t].forwarded[i] = hist[t].pulled[i]

\* A track with an unrecognised selector has returned two frames; the second
\* shows the board.
C10_Witness ==
    \E t \in TrackIds :
        /\ trk[t].transform = "cartoon"
        /\ Len(hist[t].forwarded) = 2
        /\ hist[t].forwarded[2].data = Raw("board")

\* C11: with each of the selectors 'none', 'edges' and 'rotate', every frame
\* recv has returned carries the pts and the time base of the frame it was
\* made from, whatever the picture, the time base and the filter's result.
C11_TimingPreserved ==
    \A t \in TrackIds :
        trk[t].transform \in {"none", "edges", "rotate"} =>
            \A i \in 1..Len(hist[t].forwarded) :
                /\ i <= Len(hist[t].pulled)
                /\ hist[t].forwarded[i].pts = hist[t].pulled[i].pts
                /\ hist[t].forwarded[i].time_base = hist[t].pulled[i].time_base

\* A 'rotate' track has returned three frames: the third, of time base 1/2, was
\* turned (its pixels differ from those pulled) and carries pts 2.
C11_Witness ==
    \E t \in TrackIds :
        /\ trk[t].transform = "rotate"
        /\ Len(hist[t].forwarded) = 3
        /\ hist[t].forwarded[3].data # hist[t].pulled[3].data
        /\ hist[t].forwarded[3].pts = 2
        /\ hist[t].forwarded[3].time_base = 2

\* The latest snapshot of VideoTrack t (which has written one).
LastShot(t) == Shots(t)[Len(Shots(t))]

\* C12 as stated: the last_save_time a capture stores is the clock reading that
\* was compared with the interval when the capture was decided.
C12_StoredIsDecisionTime ==
    \A t \in TrackIds :
        Shots(t) # << >> => trk[t].last_save_time = LastShot(t).at

\* recv pulls a frame on VideoTrack t in this step.
Pulls(t) == Len(hist'[t].pulled) = Len(hist[t].pulled) + 1

\* C12, amended: the last_save_time a capture stores is a second clock reading,
\* taken once the write has returned: the reading of the decision plus the time
\* the write took, never earlier than the decision and equal to it only when
\* the write took no time; and a later frame is captured iff it arrives at
\* least save_interval_s after that stored reading.
C12_StoredIsReadAfterWrite ==
    /\ [](\A t \in TrackIds :
             Shots(t) # << >> =>
                 /\ trk[t].last_save_time = LastShot(t).at + LastShot(t).took
                 /\ trk[t].last_save_time >= LastShot(t).at
                 /\ (trk[t].last_save_time = LastShot(t).at) = (LastShot(t).took = 0))
    /\ [][\A t \in TrackIds :
             (Pulls(t) /\ Shots(t) # << >>) =>
                 LET now == hist'[t].arrivals[Len(hist'[t].arrivals)]
                 IN  (Len(hist'[t].shots) = Len(hist[t].shots) + 1) =
                         (now - trk[t].last_save_time >= trk[t].save_interval_s * TicksPerSecond)]_vars

\* The write of a track's first snapshot, at second 0, took time; the frame
\* that arrived exactly 60 s after that decision was therefore not saved, and
\* the frame of second 61 was.
C12_Witness ==
    \E t \in TrackIds :
        /\ hist[t].arrivals = <<Secs(0), Secs(60), Secs(61)>>
        /\ Len(Shots(t)) = 2
        /\ Shots(t)[1].took > 0
        /\ Shots(t)[2].at = Secs(61)

(* The claims below are about the VideoTracks of a peer connection. *)

WriteFails(t) ==
    /\ Pulls(t)
    /\ Len(hist'[t].shots) = Len(hist[t].shots) + 1
    /\ ~hist'[t].shots[Len(hist'[t].shots)].ok

\* C14: a recv whose snapshot write fails still returns the frame it pulled
\* (transformed as its selector says), leaves the data directory, the
\* VideoTrack's place on its pc, every pc's state and pcs as they were, and the
\* track is pulled on; and on a track one of whose writes has failed every
\* pulled frame has been returned and the pc is open and in pcs.
C14_WriteFailureIsolated ==
    /\ [][\A t \in TrackIds :
             WriteFails(t) =>
                 LET n == Len(hist'[t].pulled)
                 IN  /\ Len(hist'[t].forwarded) = n
                     /\ hist'[t].forwarded[n].pts = hist'[t].pulled[n].pts
                     /\ trk[t].transform = "none" => hist'[t].forwarded[n] = hist'[t].pulled[n]
                     /\ trk'[t].active /\ ~trk'[t].ended
                     /\ trk'[t].pc = trk[t].pc
                     /\ files' = files
                     /\ pcs' = pcs
                     /\ pcState' = pcState]_vars
    /\ [](\A t \in TrackIds :
             (\E k \in 1..Len(Shots(t)) : ~Shots(t)[k].ok) =>
                 /\ Len(hist[t].forwarded) = Len(hist[t].pulled)
                 /\ trk[t].active
                 /\ trk[t].pc \in pcs
                 /\ pcState[trk[t].pc] = "open")

\* The write of a track's first snapshot failed; the track went on: its second
\* frame was returned without a snapshot and its third, a minute later, was
\* returned and saved, in the only file of the directory.
C14_Witness ==
    \E t \in TrackIds :
        /\ Len(Shots(t)) = 2
        /\ ~Shots(t)[1].ok /\ Shots(t)[2].ok
        /\ hist[t].arrivals = <<Secs(0), Secs(0), Secs(60)>>
        /\ Len(hist[t].forwarded) = 3
        /\ Cardinality(files) = 1
        /\ trk[t].pc \in pcs

\* This step handles a failure of peer connection p: its ICE handler runs, or
\* goes on after its close(), with the ICE state 'failed' read on line 144, or
\* its offer() ends with an exception of lines 163-167.
FailureHandled(p) ==
    \/ /\ iceState[p] = "failed"
       /\ iceHandler[p] \in {"scheduled", "closing"}
       /\ iceHandler'[p] # iceHandler[p]
    \/ /\ req[p].phase # "failed"
       /\ req'[p].phase = "failed"

\* C15: a step that handles the transport failure or the negotiation failure
\* of one peer connection leaves every other peer connection as it was: its
\* membership of pcs, its state, its ICE state and handler, its request and
\* its VideoTracks with all their fields.
C15_FailureIsLocal ==
    [][\A p \in PcIds :
          FailureHandled(p) =>
              \A q \in PcIds \ {p} :
                  /\ (q \in pcs') = (q \in pcs)
                  /\ pcState'[q] = pcState[q]
                  /\ iceState'[q] = iceState[q]
                  /\ iceHandler'[q] = iceHandler[q]
                  /\ req'[q] = req[q]
                  /\ \A t \in TrackIds : trk[t].pc = q => trk'[t] = trk[t]]_vars

\* One peer connection with a VideoTrack was closed and discarded by its ICE
\* handler; the other, whose ICE state is 'completed', is open and in pcs and
\* its VideoTrack is still pulled.
C15_Witness ==
    \E p, q \in PcIds :
        /\ p # q
        /\ shutdown.phase = "idle"
        /\ pcState[p] = "closed" /\ p \notin pcs /\ TracksOf(p) # {}
        /\ pcState[q] = "open" /\ q \in pcs /\ iceState[q] = "completed"
        /\ \E t \in TracksOf(q) : trk[t].active

\* The ICE handler of peer connection p runs in this step and reads, on line
\* 144, a state other than 'failed'.
LogsOnly(p) ==
    /\ iceHandler[p] = "scheduled"
    /\ iceHandler'[p] = "idle"
    /\ iceState[p] # "failed"

\* C16: a run of the ICE handler that finds the state to be anything but
\* 'failed' ('checking', 'completed', 'closed') only logs: pcs, the state of
\* every pc, and every VideoTrack are as they were.
C16_OtherIceStatesOnlyLogged ==
    [][\A p \in PcIds :
          LogsOnly(p) =>
              /\ pcs' = pcs
              /\ pcState' = pcState
              /\ iceState' = iceState
              /\ trk' = trk
              /\ registered' = registered]_vars

\* The handler has run on the change to 'completed' of a peer connection that
\* is open, in pcs, and has a VideoTrack that is pulled.
C16_Witness ==
    \E p \in PcIds :
        /\ iceState[p] = "completed"
        /\ iceHandler[p] = "idle"
        /\ pcState[p] = "open"
        /\ p \in pcs
        /\ \E t \in TracksOf(p) : trk[t].active

\* Peer connection p owns VideoTrack t: the track was added to p and p's sender
\* still holds it (the sender was not stopped).
Owns(p, t) == trk[t].pc = p /\ trk[t].active

TrackEnds(t) ==
    /\ trk[t].pc # 0
    /\ ~trk[t].ended /\ trk'[t].ended
    /\ pcState'[trk[t].pc] = pcState[trk[t].pc]

Captures(t) == Pulls(t) /\ Len(hist'[t].shots) = Len(hist[t].shots) + 1

\* C18: whenever recv writes a snapshot, with any of the selectors 'none',
\* 'edges' and 'rotate', the picture it hands to the write is the pixel data of
\* the frame it pulled, and a write that works stores that picture under the
\* snapshot's name; the frame it returns carries the filtered picture: the edge
\* map for 'edges', the turned picture for 'rotate', the pulled one for 'none'.
C18_SnapshotIsOriginal ==
    [][\A t \in TrackIds :
          (Captures(t) /\ trk[t].transform \in {"none", "edges", "rotate"}) =>
              LET n == Len(hist'[t].pulled)
                  frame == hist'[t].pulled[n]
                  ret == hist'[t].forwarded[n]
                  shot == hist'[t].shots[Len(hist'[t].shots)]
              IN  /\ Len(hist'[t].forwarded) = n
                  /\ shot.img = frame.data
                  /\ shot.img.op = "raw"
                  /\ shot.ok => [fname |-> shot.fname, img |-> frame.data] \in files'
                  /\ ret.data = CASE trk[t].transform = "edges" -> Canny(frame.data)
                                  [] trk[t].transform = "rotate" ->
                                         Rotated(frame.data, frame.pts, frame.time_base)
                                  [] trk[t].transform = "none" -> frame.data]_vars

\* An 'edges' track has saved the board as the camera sent it and returned its
\* edge map: the stored picture and the returned one differ.
C18_Witness ==
    \E t \in TrackIds :
        /\ trk[t].transform = "edges"
        /\ Len(Shots(t)) = 1
        /\ Shots(t)[1].ok
        /\ Shots(t)[1].img = Raw("board")
        /\ [fname |-> Shots(t)[1].fname, img |-> Raw("board")] \in files
        /\ hist[t].forwarded[1].data = [Raw("board") EXCEPT !.op = "edges"]

(* The claims below are about several VideoTracks at once. *)

\* The second, on the wall clock, of a clock reading.
SecondOf(now) == now \div TicksPerSecond

C20_ThrottleIsPerTrack ==
    /\ [][\A t \in TrackIds :
             trk[t].pc # 0 =>
                 /\ trk'[t].transform = trk[t].transform
                 /\ trk'[t].save_interval_s = trk[t].save_interval_s
                 /\ trk'[t].client_ip = trk[t].client_ip
                 /\ trk'[t].pc = trk[t].pc]_vars
    /\ [][\A t \in TrackIds :
             trk'[t].last_save_time # trk[t].last_save_time => Captures(t)]_vars
    /\ [][\A t \in TrackIds :
             Pulls(t) =>
                 LET now == hist'[t].arrivals[Len(hist'[t].arrivals)]
                 IN  /\ \A u \in TrackIds \ {t} : trk'[u] = trk[u] /\ hist'[u] = hist[u]
                     /\ Captures(t) =
                            (\/ trk[t].last_save_time = NoTime
                             \/ now - trk[t].last_save_time >=
                                    trk[t].save_interval_s * TicksPerSecond)
                     /\ ~Captures(t) => trk'[t] = trk[t]]_vars

\* Two VideoTracks hold different last_save_times: one saved its first frame
\* at second 0 and not its second frame; the other saved its first frame at
\* second 61.
C20_Witness ==
    \E t, u \in TrackIds :
        /\ t # u
        /\ trk[t].last_save_time = Secs(0)
        /\ Len(hist[t].pulled) = 2 /\ Len(Shots(t)) = 1
        /\ trk[u].last_save_time = Secs(61)
        /\ Len(hist[u].pulled) = 1
====
